---- MODULE Spec2Model ----
(***************************************************************************)
(* Authentication and authorization core of the abroad_khabar backend:     *)
(* the token codec (app/core/security.py, app/auth/jwt.py), the user store *)
(* (app/models/user.py), the role -> permission matrix and its guards      *)
(* (app/core/permissions.py), the resolver and its guards                  *)
(* (app/auth/dependencies.py, app/api/v1/auth.py) and the account          *)
(* endpoints (app/api/v1/auth.py, app/api/v1/users.py), and the rate       *)
(* limiter in front of them (app/core/security.py).                        *)
(***************************************************************************)
EXTENDS Integers, Sequences, FiniteSets, TLC

(***************************************************************************)
(* Bounds of the model.                                                    *)
(***************************************************************************)
MaxUsers == 2
MaxIssued == 2
MaxTicks == 1
\* requests one client sends
MaxRequests == 4
\* settings.RATE_LIMIT_REQUESTS, an environment setting of app/core/config.py,
\* taken small
RATE_LIMIT_REQUESTS == 2

(***************************************************************************)
(* Program constants.                                                      *)
(***************************************************************************)
ACCESS_TOKEN_EXPIRE_MINUTES == 60 * 24 * 7
REFRESH_TOKEN_EXPIRE_DAYS == 30
RATE_LIMIT_PERIOD == 60
RESET_TOKEN_EXPIRE_MINUTES == 30
SECRET_KEY == "secret-key"
OtherKey == "other-key"

\* timedelta(minutes = m).total_seconds()
MinutesToSeconds(m) == m * 60
\* REFRESH_TOKEN_EXPIRE_DAYS * 24 * 60 * 60
DaysToSeconds(d) == d * 24 * 60 * 60

(***************************************************************************)
(* Enumerations.  A member of a (str, Enum) class is represented by its    *)
(* value: it compares and hashes as that string.                           *)
(***************************************************************************)
\* app/models/user.py UserRole: the role stored on a User row
ModelUserRole == {"ADMIN", "EDITOR", "VIEWER", "USER"}
\* app/models/user.py UserStatus
UserStatus == {"active", "inactive", "suspended"}
\* app/core/permissions.py UserRole: the role the matrix is keyed by
PermUserRole == [ADMIN |-> "admin", EDITOR |-> "editor", VIEWER |-> "viewer", USER |-> "user"]
RoleNames == {"ADMIN", "EDITOR", "VIEWER", "USER"}
PermUserRoleValues == {PermUserRole[n] : n \in RoleNames}

\* app/core/permissions.py Permission
Permission ==
    {"user:create", "user:read", "user:update", "user:delete",
     "blog:create", "blog:read", "blog:update", "blog:delete", "blog:publish",
     "service:create", "service:read", "service:update", "service:delete",
     "video:create", "video:read", "video:update", "video:delete",
     "image:create", "image:read", "image:update", "image:delete",
     "ad:create", "ad:read", "ad:update", "ad:delete",
     "media:upload", "media:delete"}

\* app/core/permissions.py ROLE_PERMISSIONS, keyed by the permissions.UserRole value
ROLE_PERMISSIONS ==
    [r \in PermUserRoleValues |->
        CASE r = "admin" ->
               {"user:create", "user:read", "user:update", "user:delete",
                "blog:create", "blog:read", "blog:update", "blog:delete", "blog:publish",
                "service:create", "service:read", "service:update", "service:delete",
                "video:create", "video:read", "video:update", "video:delete",
                "image:create", "image:read", "image:update", "image:delete",
                "ad:create", "ad:read", "ad:update", "ad:delete",
                "media:upload", "media:delete"}
          [] r = "editor" ->
               {"blog:create", "blog:read", "blog:update", "blog:delete", "blog:publish",
                "service:read",
                "video:create", "video:read", "video:update", "video:delete",
                "image:create", "image:read", "image:update", "image:delete",
                "media:upload"}
          [] r = "viewer" ->
               {"blog:read", "service:read", "video:read", "image:read", "ad:read"}
          [] r = "user" ->
               {"blog:read", "service:read", "video:read"}]

(***************************************************************************)
(* Values.                                                                 *)
(***************************************************************************)
\* a claim, attribute or column that is not there (Python None)
Absent == "<absent>"
NoTime == -1
NoId == 0

Emails == {"admin@x", "bob@x"}
Usernames == {"admin", "bob"}

\* a password: its first 72 characters and whatever follows them
Passwords == [prefix : {"p", "q"}, tail : {""}]
\* a request that carries no password
NoPassword == [prefix |-> Absent, tail |-> Absent]
\* the password a registration of the model asks for
RegisterPasswords == {[prefix |-> "q", tail |-> ""]}
Salts == {"s1"}

\* the decimal literals of the model with their values, and a literal that is not
\* the str() of its value
Digits == <<"1", "2", "3", "4", "5", "6", "7", "8", "9">>
IntLiterals == {<<"0", 0>>, <<"01", 1>>} \cup {<<Digits[n], n>> : n \in 1 .. Len(Digits)}
\* str(n)
str(n) == IF n = 0 THEN "0" ELSE Digits[n]
\* int(s) succeeds
IsNumeric(s) == \E l \in IntLiterals : l[1] = s
\* int(s)
int(s) == (CHOOSE l \in IntLiterals : l[1] = s)[2]

(***************************************************************************)
(* Token codec.  A token is the claims it carries and a signature over     *)
(* them under a key; jose's jwt.decode recomputes the signature under the  *)
(* verifying key and then rejects an exp that lies in the past.            *)
(***************************************************************************)
NoPayload == [sub |-> Absent, role |-> Absent, purpose |-> Absent,
              type |-> Absent, exp |-> NoTime, iat |-> NoTime]
NoSig == [key |-> Absent, over |-> NoPayload]

\* the dict an endpoint passes as data=
Data(sub, role, purpose) == [NoPayload EXCEPT !.sub = sub, !.role = role, !.purpose = purpose]

\* HMAC of the claims under the key
Hmac(claims, key) == [key |-> key, over |-> claims]

\* jose jwt.encode(claims, key, algorithm)
JwtEncode(claims, key) == [kind |-> "jwt", payload |-> claims, sig |-> Hmac(claims, key)]

\* no Authorization header, and a bearer value that is not a JWT
NoCredential == [kind |-> "none", payload |-> NoPayload, sig |-> NoSig]
Malformed == [kind |-> "malformed", payload |-> NoPayload, sig |-> NoSig]

DecodeFailure == [ok |-> FALSE, payload |-> NoPayload]

\* jose jwt.decode(token, key, algorithms): JWTError on a malformed token or a
\* signature mismatch, ExpiredSignatureError (a JWTError) when exp < now
JwtDecode(token, key, t) ==
    IF token.kind # "jwt" THEN DecodeFailure
    ELSE IF token.sig # Hmac(token.payload, key) THEN DecodeFailure
    ELSE IF token.payload.exp # NoTime /\ token.payload.exp < t THEN DecodeFailure
    ELSE [ok |-> TRUE, payload |-> token.payload]

\* app/core/security.py create_access_token; expires_delta = 0 stands for None
\* as well (both are falsy)
create_access_token(data, expires_delta, t) ==
    LET expire == IF expires_delta # 0
                  THEN t + expires_delta
                  ELSE t + ACCESS_TOKEN_EXPIRE_MINUTES * 60
    IN JwtEncode([data EXCEPT !.exp = expire, !.type = "access"], SECRET_KEY)

\* app/core/security.py create_refresh_token
create_refresh_token(data, t) ==
    LET expire == t + DaysToSeconds(REFRESH_TOKEN_EXPIRE_DAYS)
    IN JwtEncode([data EXCEPT !.exp = expire, !.type = "refresh"], SECRET_KEY)

\* verify_token decoding with the expiry check switched off
verify_token_no_expiry(token, t) == JwtDecode(token, SECRET_KEY, 0)

\* app/core/security.py verify_token
verify_token(token, t) == JwtDecode(token, SECRET_KEY, t)

\* app/auth/jwt.py create_jwt_token; expires_delta = 0 stands for None as well
create_jwt_token(data, expires_delta, token_type, t) ==
    LET expire == IF expires_delta # 0
                  THEN t + expires_delta
                  ELSE IF token_type = "access"
                       THEN t + MinutesToSeconds(ACCESS_TOKEN_EXPIRE_MINUTES)
                       ELSE t + DaysToSeconds(REFRESH_TOKEN_EXPIRE_DAYS)
    IN JwtEncode([data EXCEPT !.exp = expire, !.iat = t, !.type = token_type], SECRET_KEY)

\* verify_jwt_token decoding with the expiry check switched off
verify_jwt_token_no_expiry(token, t) == JwtDecode(token, SECRET_KEY, 0)

\* app/auth/jwt.py verify_jwt_token
verify_jwt_token(token, t) == JwtDecode(token, SECRET_KEY, t)

\* app/auth/jwt.py get_user_id_from_token: the id, or NoId for None
get_user_id_from_token(payload) ==
    LET user_id == payload.sub
    IN IF user_id # Absent /\ user_id # ""
       THEN IF IsNumeric(user_id) THEN int(user_id) ELSE NoId
       ELSE NoId

\* app/auth/jwt.py create_password_reset_token
create_password_reset_token(user_id, t) ==
    create_jwt_token(Data(str(user_id), Absent, "password_reset"),
                     MinutesToSeconds(RESET_TOKEN_EXPIRE_MINUTES), "access", t)

\* app/auth/jwt.py verify_password_reset_token: the id, or NoId for None
verify_password_reset_token(token, t) ==
    LET decoded == verify_jwt_token(token, t)
    IN IF ~decoded.ok \/ decoded.payload.purpose # "password_reset"
       THEN NoId
       ELSE get_user_id_from_token(decoded.payload)

(***************************************************************************)
(* Credential verifier.                                                    *)
(***************************************************************************)
\* password[:72]
Truncate72(password) == [password EXCEPT !.tail = ""]
\* bcrypt of a password of at most 72 characters under a salt
Bcrypt(password, salt) == <<salt, password.prefix, password.tail>>

\* app/core/security.py get_password_hash
get_password_hash(password, salt) ==
    [salt |-> salt, digest |-> Bcrypt(Truncate72(password), salt)]

\* app/core/security.py verify_password
verify_password(plain_password, hashed_password) ==
    Bcrypt(Truncate72(plain_password), hashed_password.salt) = hashed_password.digest

(***************************************************************************)
(* State.                                                                  *)
(***************************************************************************)
VARIABLES
    users,      \* the rows of the users table
    issued,     \* the tokens the endpoints have returned and clients still hold
    now,        \* the clock, in seconds
    ticks,      \* how often the clock has advanced
    resp,       \* the last request and its response
    used,       \* history: <<token, 1>> for a reset token that has changed a
                \* password, <<token, 2>> for one that has done so more than once
    settings,   \* the settings of app/core/config.py that the process was started with
    app_state,  \* request.app.state: the rate_limit_<ip> attribute of each client
    traffic     \* history: per client, the requests received and those given to
                \* call_next

vars == <<users, issued, now, ticks, resp, used, settings, app_state, traffic>>

(***************************************************************************)
(* User store: the rows of the users table.                                *)
(***************************************************************************)
NoHash == [salt |-> Absent, digest |-> <<Absent, Absent, Absent>>]
NoUser == [id |-> NoId, email |-> Absent, username |-> Absent, hashed_password |-> NoHash,
           role |-> Absent, status |-> Absent, last_login |-> NoTime]

\* db.query(User).filter(User.id == user_id).first()
FindById(rows, user_id) ==
    IF \E u \in rows : u.id = user_id
    THEN CHOOSE u \in rows : u.id = user_id
    ELSE NoUser

(***************************************************************************)
(* Authorization matrix.                                                   *)
(***************************************************************************)
\* the subject of a check: a User row, or the claims of a decoded token
PrincipalSubject(u) == [kind |-> "user", role |-> u.role]
ClaimsSubject(payload) == [kind |-> "claims", role |-> payload.role]
NoSubject == [kind |-> "none", role |-> Absent]

\* has_permission granting what it is asked when the role is none of the matrix
has_permission_default_grant(user, permission) ==
    IF user.kind = "none" THEN FALSE
    ELSE LET user_role == user.role
         IN IF user_role = Absent \/ user_role = "" THEN FALSE
            ELSE IF user_role \notin PermUserRoleValues THEN TRUE
            ELSE permission \in ROLE_PERMISSIONS[user_role]

\* app/core/permissions.py has_permission
has_permission(user, permission) ==
    IF user.kind = "none" THEN FALSE
    ELSE LET user_role == user.role
         IN IF user_role = Absent \/ user_role = "" THEN FALSE
            \* UserRole(user_role): lookup by value, ValueError when there is none
            ELSE IF user_role \notin PermUserRoleValues THEN FALSE
            ELSE permission \in ROLE_PERMISSIONS[user_role]

(***************************************************************************)
(* Outcome of a guard or endpoint: the HTTP status, the detail of the      *)
(* error, and the id of the user handed to the endpoint (NoId for None).   *)
(***************************************************************************)
Outcome(status, detail, user) == [status |-> status, detail |-> detail, user |-> user]

\* get_current_user admitting access tokens without a purpose only
ApiGetCurrentUserAccessOnly(cred, rows, t) ==
    IF cred.kind = "none" THEN Outcome(401, "Not authenticated", NoId)
    ELSE LET decoded == verify_token(cred, t)
             user_id == decoded.payload.sub
         IN IF ~decoded.ok THEN Outcome(401, "Could not validate credentials", NoId)
            ELSE IF decoded.payload.type # "access" \/ decoded.payload.purpose # Absent
            THEN Outcome(401, "Could not validate credentials", NoId)
            ELSE IF user_id = Absent THEN Outcome(401, "Could not validate credentials", NoId)
            ELSE IF ~IsNumeric(user_id) THEN Outcome(500, "Internal server error", NoId)
            ELSE LET user == FindById(rows, int(user_id))
                 IN IF user = NoUser \/ user.status # "active"
                    THEN Outcome(401, "Could not validate credentials", NoId)
                    ELSE Outcome(200, "", user.id)

\* get_current_user refusing a token that has been consumed by a password reset
ApiGetCurrentUserRevoking(cred, rows, t) ==
    IF cred.kind = "none" THEN Outcome(401, "Not authenticated", NoId)
    ELSE LET decoded == verify_token(cred, t)
             user_id == decoded.payload.sub
         IN IF ~decoded.ok THEN Outcome(401, "Could not validate credentials", NoId)
            ELSE IF <<cred, 1>> \in used
            THEN Outcome(401, "Could not validate credentials", NoId)
            ELSE IF user_id = Absent THEN Outcome(401, "Could not validate credentials", NoId)
            ELSE IF ~IsNumeric(user_id) THEN Outcome(500, "Internal server error", NoId)
            ELSE LET user == FindById(rows, int(user_id))
                 IN IF user = NoUser \/ user.status # "active"
                    THEN Outcome(401, "Could not validate credentials", NoId)
                    ELSE Outcome(200, "", user.id)

\* app/api/v1/auth.py get_current_user, behind OAuth2PasswordBearer (auto_error),
\* which answers 401 itself when no bearer credential is presented
ApiGetCurrentUser(cred, rows, t) ==
    IF cred.kind = "none" THEN Outcome(401, "Not authenticated", NoId)
    ELSE LET decoded == verify_token(cred, t)
             user_id == decoded.payload.sub
         IN IF ~decoded.ok THEN Outcome(401, "Could not validate credentials", NoId)
            ELSE IF user_id = Absent THEN Outcome(401, "Could not validate credentials", NoId)
            \* User.id == user_id compares an integer column with the string
            ELSE IF ~IsNumeric(user_id) THEN Outcome(500, "Internal server error", NoId)
            ELSE LET user == FindById(rows, int(user_id))
                 IN IF user = NoUser \/ user.status # "active"
                    THEN Outcome(401, "Could not validate credentials", NoId)
                    ELSE Outcome(200, "", user.id)

\* app/api/v1/auth.py get_current_active_user
ApiGetCurrentActiveUser(cred, rows, t) ==
    LET r == ApiGetCurrentUser(cred, rows, t)
    IN IF r.status # 200 THEN r
       ELSE IF FindById(rows, r.user).status # "active"
            THEN Outcome(400, "Inactive user", NoId)
            ELSE r

\* require_permission testing the permission before the authentication
require_permission_permission_first(permission, cred, rows, t) ==
    LET r == ApiGetCurrentUser(cred, rows, t)
        subject == IF r.user = NoId THEN NoSubject
                   ELSE PrincipalSubject(FindById(rows, r.user))
    IN IF ~has_permission(subject, permission)
       THEN Outcome(403, "Insufficient permissions", NoId)
       ELSE IF r.status # 200 THEN r
       ELSE r

\* app/core/permissions.py require_permission(permission)
require_permission(permission, cred, rows, t) ==
    LET r == ApiGetCurrentUser(cred, rows, t)
    IN IF r.status # 200 THEN r
       ELSE IF r.user = NoId THEN Outcome(401, "Authentication required", NoId)
       ELSE IF ~has_permission(PrincipalSubject(FindById(rows, r.user)), permission)
            THEN Outcome(403, "Insufficient permissions", NoId)
            ELSE r

\* app/core/permissions.py require_role(role); role is a member name of
\* permissions.UserRole, role.value its value
require_role(role, cred, rows, t) ==
    LET r == ApiGetCurrentUser(cred, rows, t)
    IN IF r.status # 200 THEN r
       ELSE IF r.user = NoId THEN Outcome(401, "Authentication required", NoId)
       ELSE LET user_role == FindById(rows, r.user).role
            \* user_role != role and user_role != role.value: the member compares
            \* as its value
            IN IF user_role # PermUserRole[role] /\ user_role # PermUserRole[role]
               THEN Outcome(403, "Requires role", NoId)
               ELSE r

\* app/core/permissions.py require_admin
require_admin(cred, rows, t) == require_role("ADMIN", cred, rows, t)

\* app/auth/dependencies.py security = HTTPBearer(auto_error=False)
HTTPBearerAutoError == FALSE

\* app/auth/dependencies.py get_current_user: never raises, user = NoId for None
get_current_user(cred, rows, t) ==
    IF cred.kind = "none"
    THEN IF HTTPBearerAutoError THEN Outcome(403, "Not authenticated", NoId)
         ELSE Outcome(200, "", NoId)
    ELSE LET decoded == verify_jwt_token(cred, t)
             user_id == get_user_id_from_token(decoded.payload)
             user == FindById(rows, user_id)
         IN IF ~decoded.ok THEN Outcome(200, "", NoId)
            ELSE IF user_id = NoId THEN Outcome(200, "", NoId)
            ELSE IF user = NoUser \/ user.status # "active" THEN Outcome(200, "", NoId)
            ELSE Outcome(200, "", user.id)

\* app/auth/dependencies.py get_current_active_user
get_current_active_user(cred, rows, t) ==
    LET r == get_current_user(cred, rows, t)
    IN IF r.status # 200 THEN r
       ELSE IF r.user = NoId THEN Outcome(401, "Authentication required", NoId)
       ELSE IF FindById(rows, r.user).status # "active"
            THEN Outcome(400, "User account is not active", NoId)
            ELSE r

\* app/auth/dependencies.py get_current_admin_user: the role is compared with
\* models.UserRole.ADMIN
get_current_admin_user(cred, rows, t) ==
    LET r == get_current_active_user(cred, rows, t)
    IN IF r.status # 200 THEN r
       ELSE IF FindById(rows, r.user).role # "ADMIN"
            THEN Outcome(403, "Admin privileges required", NoId)
            ELSE r

\* app/auth/dependencies.py get_current_editor_user
get_current_editor_user(cred, rows, t) ==
    LET r == get_current_active_user(cred, rows, t)
    IN IF r.status # 200 THEN r
       ELSE IF FindById(rows, r.user).role \notin {"ADMIN", "EDITOR"}
            THEN Outcome(403, "Editor privileges required", NoId)
            ELSE r

\* optional_auth depending on the guard that raises
optional_auth_raising(cred, rows, t) == get_current_active_user(cred, rows, t)

\* app/auth/dependencies.py optional_auth
optional_auth(cred, rows, t) == get_current_user(cred, rows, t)

(***************************************************************************)
(* A guard as the steps one request takes through it: the token is         *)
(* decoded, the row is queried, the decision is taken.  What a request     *)
(* keeps between its steps is its own: the arguments and locals of the     *)
(* coroutine and the Session get_db opens for it.                          *)
(***************************************************************************)
DependencyGuards ==
    {"get_current_user", "get_current_active_user", "get_current_admin_user",
     "get_current_editor_user"}

Pending == Outcome(0, "pending", NoId)
StagedRequest(guard, arg, cred) ==
    [guard |-> guard, arg |-> arg, cred |-> cred, pc |-> "decode",
     decoded |-> DecodeFailure, row |-> NoUser, outcome |-> Pending]

\* payload = verify_jwt_token(token) in app/auth/dependencies.py, verify_token(token)
\* in app/api/v1/auth.py
StageDecode(req, t) ==
    [req EXCEPT !.pc = "lookup",
                !.decoded = IF req.guard \in DependencyGuards
                            THEN verify_jwt_token(req.cred, t)
                            ELSE verify_token(req.cred, t)]

\* user = db.query(User).filter(User.id == user_id).first()
StageLookup(req, rows) ==
    LET sub == req.decoded.payload.sub
    IN [req EXCEPT !.pc = "decide",
                   !.row = IF ~req.decoded.ok THEN NoUser
                           ELSE IF req.guard \in DependencyGuards
                           THEN FindById(rows, get_user_id_from_token(req.decoded.payload))
                           ELSE IF sub = Absent \/ ~IsNumeric(sub) THEN NoUser
                           ELSE FindById(rows, int(sub))]

\* the tests that follow the query, in app/auth/dependencies.py
DependencyDecide(req) ==
    LET user == IF req.row = NoUser \/ req.row.status # "active" THEN NoUser ELSE req.row
    IN IF req.guard = "get_current_user" THEN Outcome(200, "", user.id)
       ELSE IF user = NoUser THEN Outcome(401, "Authentication required", NoId)
       ELSE IF req.guard = "get_current_admin_user" /\ user.role # "ADMIN"
       THEN Outcome(403, "Admin privileges required", NoId)
       ELSE IF req.guard = "get_current_editor_user" /\ user.role \notin {"ADMIN", "EDITOR"}
       THEN Outcome(403, "Editor privileges required", NoId)
       ELSE Outcome(200, "", user.id)

\* the tests that follow the query, in app/api/v1/auth.py get_current_user and in
\* the checker of app/core/permissions.py
PermissionDecide(req) ==
    LET sub == req.decoded.payload.sub
        user == req.row
    IN IF req.cred.kind = "none" THEN Outcome(401, "Not authenticated", NoId)
       ELSE IF ~req.decoded.ok \/ sub = Absent
       THEN Outcome(401, "Could not validate credentials", NoId)
       ELSE IF ~IsNumeric(sub) THEN Outcome(500, "Internal server error", NoId)
       ELSE IF user = NoUser \/ user.status # "active"
       THEN Outcome(401, "Could not validate credentials", NoId)
       ELSE IF req.guard = "require_permission"
       THEN IF ~has_permission(PrincipalSubject(user), req.arg)
            THEN Outcome(403, "Insufficient permissions", NoId)
            ELSE Outcome(200, "", user.id)
       ELSE IF user.role # PermUserRole[req.arg] /\ user.role # PermUserRole[req.arg]
            THEN Outcome(403, "Requires role", NoId)
            ELSE Outcome(200, "", user.id)

StageDecide(req) ==
    [req EXCEPT !.pc = "done",
                !.outcome = IF req.guard \in DependencyGuards
                            THEN DependencyDecide(req)
                            ELSE PermissionDecide(req)]

\* the step of a guard in which the row it has queried is kept where the other
\* request finds it
GuardStepSharedRow(reqs, i, rows, t) ==
    [j \in DOMAIN reqs |->
        IF j = i
        THEN CASE reqs[i].pc = "decode" -> StageDecode(reqs[i], t)
               [] reqs[i].pc = "lookup" -> StageLookup(reqs[i], rows)
               [] reqs[i].pc = "decide" -> StageDecide(reqs[i])
        ELSE IF reqs[i].pc = "lookup"
             THEN [reqs[j] EXCEPT !.row = StageLookup(reqs[i], rows).row]
             ELSE reqs[j]]

\* the next step of request i; the other requests are as they were
GuardStep(reqs, i, rows, t) ==
    [reqs EXCEPT ![i] = CASE @.pc = "decode" -> StageDecode(@, t)
                          [] @.pc = "lookup" -> StageLookup(@, rows)
                          [] @.pc = "decide" -> StageDecide(@)]

(***************************************************************************)
(* The rate limiter of app/core/security.py, a function on every request   *)
(* that runs before the application's routes.                              *)
(***************************************************************************)
ClientIps == {"10.0.0.1", "10.0.0.2"}

\* what the middleware raises, None where it raises nothing
NoException == Outcome(0, "", NoId)
RateLimitExceeded == Outcome(429, "Rate limit exceeded. Please try again later.", NoId)

\* rate_limit_middleware: state holds the rate_limit_<ip> attributes, 0 standing for
\* one that is not set; passed says that call_next was called
rate_limit_middleware(client_ip, enabled, state) ==
    IF ~enabled
    THEN [exc |-> NoException, passed |-> TRUE, state |-> state]
    ELSE IF state[client_ip] >= RATE_LIMIT_REQUESTS
    THEN [exc |-> RateLimitExceeded, passed |-> FALSE, state |-> state]
    ELSE [exc |-> NoException, passed |-> TRUE,
          state |-> [state EXCEPT ![client_ip] = @ + 1]]

\* app/main.py global_exception_handler
global_exception_handler(exc) == Outcome(500, "Internal server error", NoId)

\* the response to a request: an exception that leaves a function registered with
\* @app.middleware("http") is outside the routes, where HTTPException is turned into
\* its status, and is answered by the handler registered for Exception
MiddlewareResponse(m, inner) ==
    IF m.exc # NoException THEN global_exception_handler(m.exc) ELSE inner

(***************************************************************************)
(* Account endpoints as functions of the request and the store.            *)
(***************************************************************************)
\* the tokens of a response; NoCredential where the response carries none
Reply(status, detail, user, access, refresh, reset, rows) ==
    [status |-> status, detail |-> detail, user |-> user,
     access |-> access, refresh |-> refresh, reset |-> reset, rows |-> rows]
Failure(status, detail, rows) ==
    Reply(status, detail, NoId, NoCredential, NoCredential, NoCredential, rows)

\* app/db/session.py: db is a sqlalchemy.orm.Session, which has no attribute func
SessionHasFunc == FALSE

\* db.query(User).filter((User.email == x) | (User.username == x)): the rows .first()
\* may return
RowsByIdentifier(rows, x) == {u \in rows : u.email = x \/ u.username = x}
FirstOf(matches) == IF matches = {} THEN {NoUser} ELSE matches

\* the id of the row that db.add / db.commit inserts
NextId(rows) == Cardinality(rows) + 1

\* login_user answering an unknown identifier differently from a wrong password
login_user_reveals_unknown(user, password, rows, t) ==
    IF user = NoUser
    THEN Failure(404, "User not found", rows)
    ELSE IF ~verify_password(password, user.hashed_password)
    THEN Failure(401, "Incorrect email/username or password", rows)
    ELSE IF user.status # "active"
    THEN Failure(400, "User account is not active", rows)
    ELSE IF ~SessionHasFunc
    THEN Failure(500, "Internal server error", rows)
    ELSE LET data == Data(str(user.id), user.role, Absent)
             updated == [user EXCEPT !.last_login = t]
         IN Reply(200, "Login successful", user.id,
                  create_access_token(data, MinutesToSeconds(ACCESS_TOKEN_EXPIRE_MINUTES), t),
                  create_refresh_token(data, t),
                  NoCredential,
                  (rows \ {user}) \cup {updated})

\* login_user without the test of the account status
login_user_no_status_check(user, password, rows, t) ==
    IF user = NoUser \/ ~verify_password(password, user.hashed_password)
    THEN Failure(401, "Incorrect email/username or password", rows)
    ELSE IF ~SessionHasFunc
    THEN Failure(500, "Internal server error", rows)
    ELSE LET data == Data(str(user.id), user.role, Absent)
             updated == [user EXCEPT !.last_login = t]
         IN Reply(200, "Login successful", user.id,
                  create_access_token(data, MinutesToSeconds(ACCESS_TOKEN_EXPIRE_MINUTES), t),
                  create_refresh_token(data, t),
                  NoCredential,
                  (rows \ {user}) \cup {updated})

\* app/api/v1/auth.py login_user, for the row the query returned
login_user(user, password, rows, t) ==
    IF user = NoUser \/ ~verify_password(password, user.hashed_password)
    THEN Failure(401, "Incorrect email/username or password", rows)
    ELSE IF user.status # "active"
    THEN Failure(400, "User account is not active", rows)
    \* user.last_login = db.func.now() raises AttributeError before it assigns
    ELSE IF ~SessionHasFunc
    THEN Failure(500, "Internal server error", rows)
    ELSE LET data == Data(str(user.id), user.role, Absent)
             updated == [user EXCEPT !.last_login = t]
         IN Reply(200, "Login successful", user.id,
                  create_access_token(data, MinutesToSeconds(ACCESS_TOKEN_EXPIRE_MINUTES), t),
                  create_refresh_token(data, t),
                  NoCredential,
                  (rows \ {user}) \cup {updated})

\* register_user looking for the email only
register_user_email_only(email, username, password, salt, rows, t) ==
    IF \E u \in rows : u.email = email
    THEN Failure(400, "User with this email or username already exists", rows)
    ELSE LET user == [id |-> NextId(rows), email |-> email, username |-> username,
                      hashed_password |-> get_password_hash(password, salt),
                      role |-> "USER", status |-> "active", last_login |-> NoTime]
             data == Data(str(user.id), user.role, Absent)
         IN Reply(200, "User registered successfully", user.id,
                  create_access_token(data, MinutesToSeconds(ACCESS_TOKEN_EXPIRE_MINUTES), t),
                  create_refresh_token(data, t),
                  NoCredential,
                  rows \cup {user})

\* app/api/v1/auth.py register_user
register_user(email, username, password, salt, rows, t) ==
    IF \E u \in rows : u.email = email \/ u.username = username
    THEN Failure(400, "User with this email or username already exists", rows)
    ELSE LET user == [id |-> NextId(rows), email |-> email, username |-> username,
                      hashed_password |-> get_password_hash(password, salt),
                      role |-> "USER", status |-> "active", last_login |-> NoTime]
             data == Data(str(user.id), user.role, Absent)
         IN Reply(200, "User registered successfully", user.id,
                  create_access_token(data, MinutesToSeconds(ACCESS_TOKEN_EXPIRE_MINUTES), t),
                  create_refresh_token(data, t),
                  NoCredential,
                  rows \cup {user})

\* refresh_token without the test of the token type
refresh_token_any_type(cred, rows, t) ==
    LET decoded == verify_token(cred, t)
        user_id == decoded.payload.sub
    IN IF ~decoded.ok
       THEN Failure(401, "Invalid refresh token", rows)
       ELSE IF user_id = Absent \/ ~IsNumeric(user_id)
       THEN Failure(500, "Internal server error", rows)
       ELSE LET user == FindById(rows, int(user_id))
            IN IF user = NoUser \/ user.status # "active"
               THEN Failure(401, "User not found or inactive", rows)
               ELSE Reply(200, "Token refreshed successfully", NoId,
                          create_access_token(Data(str(user.id), user.role, Absent),
                                              MinutesToSeconds(ACCESS_TOKEN_EXPIRE_MINUTES), t),
                          NoCredential, NoCredential, rows)

\* app/api/v1/auth.py refresh_token
refresh_token(cred, rows, t) ==
    LET decoded == verify_token(cred, t)
        user_id == decoded.payload.sub
    IN IF ~decoded.ok \/ decoded.payload.type # "refresh"
       THEN Failure(401, "Invalid refresh token", rows)
       \* int(user_id): TypeError on None, ValueError on a non-numeric string
       ELSE IF user_id = Absent \/ ~IsNumeric(user_id)
       THEN Failure(500, "Internal server error", rows)
       ELSE LET user == FindById(rows, int(user_id))
            IN IF user = NoUser \/ user.status # "active"
               THEN Failure(401, "User not found or inactive", rows)
               ELSE Reply(200, "Token refreshed successfully", NoId,
                          create_access_token(Data(str(user.id), user.role, Absent),
                                              MinutesToSeconds(ACCESS_TOKEN_EXPIRE_MINUTES), t),
                          NoCredential, NoCredential, rows)

\* forgot_password applying the account status gate
forgot_password_active_only(email, rows, t) ==
    IF ~\E u \in rows : u.email = email /\ u.status = "active"
    THEN Failure(200, "If an account exists with this email, a reset link will be sent", rows)
    ELSE LET user == CHOOSE u \in rows : u.email = email
         IN Reply(200, "Password reset instructions sent", NoId,
                  NoCredential, NoCredential,
                  create_access_token(Data(str(user.id), Absent, "password_reset"),
                                      MinutesToSeconds(RESET_TOKEN_EXPIRE_MINUTES), t),
                  rows)

\* app/api/v1/auth.py forgot_password
forgot_password(email, rows, t) ==
    IF ~\E u \in rows : u.email = email
    THEN Failure(200, "If an account exists with this email, a reset link will be sent", rows)
    ELSE LET user == CHOOSE u \in rows : u.email = email
         IN Reply(200, "Password reset instructions sent", NoId,
                  NoCredential, NoCredential,
                  create_access_token(Data(str(user.id), Absent, "password_reset"),
                                      MinutesToSeconds(RESET_TOKEN_EXPIRE_MINUTES), t),
                  rows)

\* reset_password refusing a token that has been consumed
reset_password_single_use(token, new_password, salt, rows, t) ==
    LET decoded == verify_token(token, t)
        user_id == decoded.payload.sub
    IN IF ~decoded.ok \/ decoded.payload.purpose # "password_reset"
       THEN Failure(400, "Invalid or expired reset token", rows)
       ELSE IF <<token, 1>> \in used
       THEN Failure(400, "Invalid or expired reset token", rows)
       ELSE IF user_id = Absent \/ ~IsNumeric(user_id)
       THEN Failure(500, "Internal server error", rows)
       ELSE LET user == FindById(rows, int(user_id))
            IN IF user = NoUser
               THEN Failure(400, "User not found", rows)
               ELSE LET updated == [user EXCEPT !.hashed_password =
                                        get_password_hash(new_password, salt)]
                    IN Reply(200, "Password reset successful", NoId,
                             NoCredential, NoCredential, NoCredential,
                             (rows \ {user}) \cup {updated})

\* reset_password without the test of the purpose claim
reset_password_any_purpose(token, new_password, salt, rows, t) ==
    LET decoded == verify_token(token, t)
        user_id == decoded.payload.sub
    IN IF ~decoded.ok
       THEN Failure(400, "Invalid or expired reset token", rows)
       ELSE IF user_id = Absent \/ ~IsNumeric(user_id)
       THEN Failure(500, "Internal server error", rows)
       ELSE LET user == FindById(rows, int(user_id))
            IN IF user = NoUser
               THEN Failure(400, "User not found", rows)
               ELSE LET updated == [user EXCEPT !.hashed_password =
                                        get_password_hash(new_password, salt)]
                    IN Reply(200, "Password reset successful", NoId,
                             NoCredential, NoCredential, NoCredential,
                             (rows \ {user}) \cup {updated})

\* app/api/v1/auth.py reset_password
reset_password(token, new_password, salt, rows, t) ==
    LET decoded == verify_token(token, t)
        user_id == decoded.payload.sub
    IN IF ~decoded.ok \/ decoded.payload.purpose # "password_reset"
       THEN Failure(400, "Invalid or expired reset token", rows)
       \* int(user_id): TypeError on None, ValueError on a non-numeric string
       ELSE IF user_id = Absent \/ ~IsNumeric(user_id)
       THEN Failure(500, "Internal server error", rows)
       ELSE LET user == FindById(rows, int(user_id))
            IN IF user = NoUser
               THEN Failure(400, "User not found", rows)
               ELSE LET updated == [user EXCEPT !.hashed_password =
                                        get_password_hash(new_password, salt)]
                    IN Reply(200, "Password reset successful", NoId,
                             NoCredential, NoCredential, NoCredential,
                             (rows \ {user}) \cup {updated})

\* app/api/v1/users.py get_current_admin
get_current_admin(cred, rows, t) ==
    LET r == ApiGetCurrentActiveUser(cred, rows, t)
    IN IF r.status # 200 THEN r
       ELSE IF FindById(rows, r.user).role # "ADMIN"
            THEN Outcome(403, "Admin access required", NoId)
            ELSE r

\* app/api/v1/users.py update_user: user_data carries the keys role and status,
\* Absent for a key the request leaves out
update_user(user_id, user_data, cred, rows, t) ==
    LET r == get_current_admin(cred, rows, t)
        user == FindById(rows, user_id)
    IN IF r.status # 200 THEN Failure(r.status, r.detail, rows)
       ELSE IF user = NoUser THEN Failure(404, "User not found", rows)
       ELSE LET updated ==
                    [user EXCEPT
                       !.role = IF user_data.role = Absent THEN @ ELSE user_data.role,
                       !.status = IF user_data.status = Absent THEN @ ELSE user_data.status]
            IN Reply(200, "", updated.id, NoCredential, NoCredential, NoCredential,
                     (rows \ {user}) \cup {updated})

(***************************************************************************)
(* register_user in the steps between which another request can run: the   *)
(* existence query, the insert that db.commit() flushes, and the signing   *)
(* of the tokens.                                                          *)
(***************************************************************************)
RegisterRequest(email, username, password, salt) ==
    [email |-> email, username |-> username, password |-> password, salt |-> salt,
     pc |-> "check", status |-> 0, detail |-> "pending", user |-> NoId,
     access |-> NoCredential, refresh |-> NoCredential]

\* user_exists = db.query(User).filter(...).first() and the 400 that follows it
RegisterCheck(req, rows) ==
    IF \E u \in rows : u.email = req.email \/ u.username = req.username
    THEN [req EXCEPT !.pc = "done", !.status = 400,
                     !.detail = "User with this email or username already exists"]
    ELSE [req EXCEPT !.pc = "commit"]

\* the row that register_user adds
RegisterRow(req, rows) ==
    [id |-> NextId(rows), email |-> req.email, username |-> req.username,
     hashed_password |-> get_password_hash(req.password, req.salt),
     role |-> "USER", status |-> "active", last_login |-> NoTime]

\* db.commit() on a table without the unique indexes
RegisterCommitNoUnique(req, rows) ==
    [req |-> [req EXCEPT !.pc = "tokens", !.user = NextId(rows)],
     rows |-> rows \cup {RegisterRow(req, rows)}]

\* db.add(user); db.commit(): the unique indexes on email and on username refuse
\* the insert with an IntegrityError, which the handler of app/main.py answers
RegisterCommit(req, rows) ==
    IF \E u \in rows : u.email = req.email \/ u.username = req.username
    THEN [req |-> [req EXCEPT !.pc = "done", !.status = 500,
                              !.detail = "Internal server error"],
          rows |-> rows]
    ELSE [req |-> [req EXCEPT !.pc = "tokens", !.user = NextId(rows)],
          rows |-> rows \cup {RegisterRow(req, rows)}]

\* the tokens and the response of the request that has committed its row
RegisterTokens(req, rows, t) ==
    LET data == Data(str(req.user), FindById(rows, req.user).role, Absent)
    IN [req EXCEPT !.pc = "done", !.status = 200,
                   !.detail = "User registered successfully",
                   !.access = create_access_token(
                                  data, MinutesToSeconds(ACCESS_TOKEN_EXPIRE_MINUTES), t),
                   !.refresh = create_refresh_token(data, t)]

\* the next step of request i: the requests and the store after it
RegisterStep(reqs, i, rows, t) ==
    CASE reqs[i].pc = "check" ->
             [reqs |-> [reqs EXCEPT ![i] = RegisterCheck(@, rows)], rows |-> rows]
      [] reqs[i].pc = "commit" ->
             [reqs |-> [reqs EXCEPT ![i] = RegisterCommit(@, rows).req],
              rows |-> RegisterCommit(reqs[i], rows).rows]
      [] reqs[i].pc = "tokens" ->
             [reqs |-> [reqs EXCEPT ![i] = RegisterTokens(@, rows, t)], rows |-> rows]

\* app/schemas/user.py: a request body is parsed into the fields the schema declares;
\* keys the schema does not declare (role, status) are dropped
UserCreate(body) ==
    [email |-> body.email, username |-> body.username, password |-> body.password]

\* a schema for PUT /me that lets the undeclared keys through
UserUpdateAllowingExtra(body) == body

UserUpdate(body) ==
    [email |-> body.email, username |-> body.username, password |-> body.password,
     role |-> Absent, status |-> Absent]

\* app/api/v1/auth.py update_current_user: every field the parsed body sets is
\* assigned to the caller's row
update_current_user(user_in, salt, cred, rows, t) ==
    LET r == ApiGetCurrentActiveUser(cred, rows, t)
        current_user == FindById(rows, r.user)
    IN IF r.status # 200 THEN Failure(r.status, r.detail, rows)
       ELSE IF /\ user_in.email # Absent
               /\ user_in.email # current_user.email
               /\ \E u \in rows : u.email = user_in.email /\ u.id # current_user.id
            THEN Failure(400, "Email already registered", rows)
       ELSE IF /\ user_in.username # Absent
               /\ user_in.username # current_user.username
               /\ \E u \in rows : u.username = user_in.username /\ u.id # current_user.id
            THEN Failure(400, "Username already taken", rows)
       ELSE LET updated ==
                    [current_user EXCEPT
                       !.email = IF user_in.email = Absent THEN @ ELSE user_in.email,
                       !.username = IF user_in.username = Absent THEN @ ELSE user_in.username,
                       !.hashed_password = IF user_in.password = NoPassword THEN @
                                           ELSE get_password_hash(user_in.password, salt),
                       !.role = IF user_in.role = Absent THEN @ ELSE user_in.role,
                       !.status = IF user_in.status = Absent THEN @ ELSE user_in.status]
            IN Reply(200, "Profile updated successfully", updated.id,
                     NoCredential, NoCredential, NoCredential,
                     (rows \ {current_user}) \cup {updated})

\* app/api/v1/auth.py logout_user: the guard runs and nothing is recorded
logout_user(cred, rows, t) == ApiGetCurrentActiveUser(cred, rows, t)

(***************************************************************************)
(* Requests and responses.                                                 *)
(***************************************************************************)

\* a request and its response
Response(op, cred, arg, pw, r) ==
    [op |-> op, cred |-> cred, arg |-> arg, username |-> Absent, pw |-> pw,
     status |-> r.status, detail |-> r.detail, user |-> r.user,
     access |-> r.access, refresh |-> r.refresh, reset |-> r.reset]
\* the response of a guard, which carries no tokens
GuardResponse(op, cred, arg, r) ==
    [op |-> op, cred |-> cred, arg |-> arg, username |-> Absent, pw |-> NoPassword,
     status |-> r.status, detail |-> r.detail, user |-> r.user,
     access |-> NoCredential, refresh |-> NoCredential, reset |-> NoCredential]

\* the tokens a response carries
TokensOf(r) == {r.access, r.refresh, r.reset} \ {NoCredential}

\* backend/create_admin.py: the seeded administrator
AdminPassword == [prefix |-> "p", tail |-> ""]
SeedAdmin ==
    [id |-> 1, email |-> "admin@x", username |-> "admin",
     hashed_password |-> get_password_hash(AdminPassword, "s1"),
     role |-> "ADMIN", status |-> "active", last_login |-> NoTime]

\* the seeded account, as created or as an administrator has since set its role and
\* status (app/api/v1/users.py update_user)
Init ==
    /\ \E role \in ModelUserRole, status \in UserStatus :
           users = {[SeedAdmin EXCEPT !.role = role, !.status = status]}
    /\ issued = {}
    /\ now = 0
    /\ ticks = 0
    /\ resp = Response("start", NoCredential, Absent, NoPassword,
                       Failure(200, "", {}))
    /\ used = {}
    /\ settings = [RATE_LIMIT_ENABLED |-> FALSE]
    /\ app_state = [ip \in ClientIps |-> 0]
    /\ traffic = [ip \in ClientIps |-> [received |-> 0, passed |-> 0]]

\* the store as backend/create_admin.py leaves it
InitAccount == Init /\ users = {SeedAdmin}

\* the process started with RATE_LIMIT_ENABLED set either way in its environment
InitRate ==
    /\ users = {SeedAdmin}
    /\ issued = {}
    /\ now = 0
    /\ ticks = 0
    /\ resp = Response("start", NoCredential, Absent, NoPassword, Failure(200, "", {}))
    /\ used = {}
    /\ settings \in [RATE_LIMIT_ENABLED : BOOLEAN]
    /\ app_state = [ip \in ClientIps |-> 0]
    /\ traffic = [ip \in ClientIps |-> [received |-> 0, passed |-> 0]]

(***************************************************************************)
(* What a client can present as a bearer credential: nothing, garbage, a   *)
(* token it was given, a token it signed itself, or a token it was given   *)
(* with the claims altered.                                                *)
(***************************************************************************)
Forged == {JwtEncode([NoPayload EXCEPT !.sub = "1", !.role = "ADMIN", !.type = "access",
                                        !.exp = 10 * DaysToSeconds(REFRESH_TOKEN_EXPIRE_DAYS)],
                     OtherKey)}
Tampered(tokens) == {[tk EXCEPT !.payload.sub = "1"] : tk \in tokens} \ tokens
Presentable == {NoCredential, Malformed} \cup issued \cup Forged \cup Tampered(issued)

\* tokens of app/auth/jwt.py create_jwt_token over claims no endpoint issues: a
\* subject that is missing, not a number, zero, or the id of no row
CodecSubjects == {Absent, "abc", "0", "01", str(MaxUsers + 1)}
CodecTokens ==
    {create_jwt_token(Data(sub, Absent, Absent), 0, "access", now) : sub \in CodecSubjects}

\* the permissions and roles the guards of the model are asked for
GuardPermissions == {"blog:read", "service:update", "ad:read", "ad:delete", "media:upload"}

\* the bodies an administrator sends to update_user
UpdateData ==
    {[role |-> Absent, status |-> s] : s \in UserStatus}
        \cup {[role |-> "EDITOR", status |-> Absent]}

\* the claims and the ttls the signing functions are called with: a ttl of 0 stands
\* for one that is left out, a negative one lies in the past
CodecData ==
    {Data(sub, role, purpose) : sub \in {"1", "2"}, role \in {Absent, "USER"},
                                purpose \in {Absent, "password_reset"}}
CodecTtls == {0, 0 - MinutesToSeconds(1), MinutesToSeconds(RESET_TOKEN_EXPIRE_MINUTES)}

\* the guards two concurrent requests are sent to, with the permission or role asked
StagedCalls ==
    (DependencyGuards \X {Absent})
        \cup {<<"require_permission", "blog:read">>, <<"require_role", "ADMIN">>}

\* passwords of up to and of more than 72 characters, and the salts bcrypt draws
LongPasswords == [prefix : {"p", "q", "r"}, tail : {"", "x", "y"}]
HashSalts == {"s1", "s2"}

\* request bodies of POST /register and PUT /me; a body may carry keys the schemas
\* do not declare
Body(email, username, password, role, status) ==
    [email |-> email, username |-> username, password |-> password,
     role |-> role, status |-> status]
RegisterBodies ==
    {Body("bob@x", "bob", pw, Absent, Absent) : pw \in RegisterPasswords}
        \cup {Body("bob@x", "bob", pw, "ADMIN", "suspended") : pw \in RegisterPasswords}
ProfileBodies ==
    {Body(Absent, Absent, AdminPassword, Absent, Absent),
     Body("carol@x", Absent, NoPassword, "ADMIN", "suspended"),
     Body("admin@x", Absent, NoPassword, "ADMIN", Absent),
     Body(Absent, "admin", NoPassword, Absent, "suspended")}

\* the identifiers of two registrations that run at once, and the salts bcrypt draws
RegisterCalls ==
    {<<"bob@x", "bob">>, <<"bob@x", "rob">>, <<"rob@x", "bob">>, <<"admin@x", "bob">>}

\* the instants the clock is advanced to: for each token held, the last second at
\* which it is valid and the first at which it is not
TickTargets ==
    {t \in {tk.payload.exp : tk \in issued} \cup {tk.payload.exp + 1 : tk \in issued} : t > now}

(***************************************************************************)
(* Actions.                                                                *)
(***************************************************************************)
\* the effect of an endpoint on the store and on the tokens in circulation
Issue(r) ==
    /\ Cardinality(issued \cup TokensOf(r)) <= MaxIssued
    /\ users' = r.rows
    /\ issued' = issued \cup TokensOf(r)
    /\ UNCHANGED <<now, ticks, settings, app_state, traffic>>

\* an endpoint that may change the store and return tokens
Serve(op, cred, arg, pw, r) ==
    /\ Issue(r)
    /\ resp' = Response(op, cred, arg, pw, r)
    /\ UNCHANGED used

\* a guard in front of an endpoint that reads only
Guard(op, cred, arg, r) ==
    /\ resp' = GuardResponse(op, cred, arg, r)
    /\ UNCHANGED <<users, issued, now, ticks, used, settings, app_state, traffic>>

Tick ==
    \E t \in TickTargets :
        /\ ticks < MaxTicks
        /\ now' = t
        /\ ticks' = ticks + 1
        /\ resp' = Response("tick", NoCredential, Absent, NoPassword, Failure(200, "", {}))
        /\ UNCHANGED <<users, issued, used, settings, app_state, traffic>>

Register ==
    \E email \in Emails, username \in Usernames, password \in RegisterPasswords, salt \in Salts :
        LET r == register_user(email, username, password, salt, users, now)
        IN /\ Cardinality(r.rows) <= MaxUsers
           /\ Issue(r)
           /\ resp' = [Response("register", NoCredential, email, password, r)
                          EXCEPT !.username = username]
           /\ UNCHANGED used

Login ==
    \E ident \in Emails \cup Usernames, password \in Passwords :
        \E user \in FirstOf(RowsByIdentifier(users, ident)) :
            Serve("login", NoCredential, ident, password,
                  login_user(user, password, users, now))

Refresh ==
    \E cred \in Presentable \ {NoCredential} :
        Serve("refresh", cred, Absent, NoPassword, refresh_token(cred, users, now))

ForgotPassword ==
    \E email \in Emails :
        Serve("forgot_password", NoCredential, email, NoPassword,
              forgot_password(email, users, now))

RequirePermission ==
    \E permission \in GuardPermissions, cred \in Presentable :
        Guard("require_permission", cred, permission,
              require_permission(permission, cred, users, now))

RequireRole ==
    \E role \in RoleNames, cred \in Presentable :
        Guard("require_role", cred, role, require_role(role, cred, users, now))

CurrentAdminUser ==
    \E cred \in Presentable :
        Guard("get_current_admin_user", cred, Absent,
              get_current_admin_user(cred, users, now))

ApiAuthenticated ==
    \E cred \in Presentable :
        Guard("api_get_current_active_user", cred, Absent,
              ApiGetCurrentActiveUser(cred, users, now))

Authenticated ==
    \E cred \in Presentable \cup CodecTokens :
        Guard("get_current_active_user", cred, Absent,
              get_current_active_user(cred, users, now))

Resolve ==
    \E cred \in Presentable \cup CodecTokens :
        Guard("get_current_user", cred, Absent, get_current_user(cred, users, now))

OptionalAuth ==
    \E cred \in Presentable \cup CodecTokens :
        Guard("optional_auth", cred, Absent, optional_auth(cred, users, now))

ResetPassword ==
    \E token \in Presentable \ {NoCredential}, new_password \in Passwords, salt \in Salts :
        LET r == reset_password(token, new_password, salt, users, now)
        IN /\ Issue(r)
           /\ resp' = Response("reset_password", token, Absent, new_password, r)
           /\ used' = IF r.status # 200 THEN used
                      ELSE IF <<token, 1>> \in used THEN used \cup {<<token, 2>>}
                      ELSE used \cup {<<token, 1>>}

AdminUpdateUser ==
    \E cred \in issued, user_id \in 1..MaxUsers, user_data \in UpdateData :
        Serve("update_user", cred, str(user_id), NoPassword,
              update_user(user_id, user_data, cred, users, now))

\* the client calls logout: the guard runs, the server records nothing
Logout ==
    \E cred \in issued :
        Guard("logout", cred, Absent, logout_user(cred, users, now))

\* the client deletes a token it holds, as logout_user asks it to
Discard ==
    \E cred \in issued :
        /\ resp' = GuardResponse("discard", cred, Absent, Outcome(200, "", NoId))
        /\ issued' = issued \ {cred}
        /\ UNCHANGED <<users, now, ticks, used, settings, app_state, traffic>>

\* the response to a request whose body is kept whole, undeclared keys included
BodyResponse(op, cred, body, r) ==
    [op |-> op, cred |-> cred, arg |-> body.email, username |-> body.username,
     pw |-> body.password, status |-> r.status, detail |-> r.detail, user |-> r.user,
     access |-> r.access, refresh |-> r.refresh, reset |-> r.reset, body |-> body]

\* POST /register with a body that may carry a role and a status
RegisterBody ==
    \E body \in RegisterBodies, salt \in Salts :
        LET user_in == UserCreate(body)
            r == register_user(user_in.email, user_in.username, user_in.password,
                               salt, users, now)
        IN /\ Cardinality(r.rows) <= MaxUsers
           /\ Issue(r)
           /\ resp' = BodyResponse("register", NoCredential, body, r)
           /\ UNCHANGED used

\* PUT /me with a body that may carry a role and a status
UpdateProfile ==
    \E cred \in issued, body \in ProfileBodies, salt \in Salts :
        LET r == update_current_user(UserUpdate(body), salt, cred, users, now)
        IN /\ Issue(r)
           /\ resp' = BodyResponse("update_me", cred, body, r)
           /\ UNCHANGED used

\* two register requests that share an email or a username arrive
BeginRegisters ==
    \E c1 \in RegisterCalls, c2 \in RegisterCalls, s1 \in HashSalts, s2 \in HashSalts :
        \E pw1 \in RegisterPasswords, pw2 \in RegisterPasswords :
            /\ c1[1] = c2[1] \/ c1[2] = c2[2]
            /\ Cardinality(users) < MaxUsers
            /\ resp.op = "registers" => \A i \in DOMAIN resp.reqs : resp.reqs[i].pc = "done"
            /\ resp' = [op |-> "registers",
                        reqs |-> <<RegisterRequest(c1[1], c1[2], pw1, s1),
                                   RegisterRequest(c2[1], c2[2], pw2, s2)>>,
                        overlap |-> FALSE]
            /\ UNCHANGED <<users, issued, now, ticks, used, settings, app_state, traffic>>

\* one of the two requests takes its next step; overlap records that the other had
\* passed the existence query and not yet committed
StepRegisters ==
    /\ resp.op = "registers"
    /\ \E i \in DOMAIN resp.reqs :
           LET s == RegisterStep(resp.reqs, i, users, now)
           IN /\ resp.reqs[i].pc # "done"
              /\ resp' = [resp EXCEPT
                            !.reqs = s.reqs,
                            !.overlap = @ \/ \E j \in DOMAIN resp.reqs \ {i} :
                                                 /\ resp.reqs[i].pc = "check"
                                                 /\ resp.reqs[j].pc = "commit"]
              /\ users' = s.rows
              /\ issued' = issued \cup ({s.reqs[i].access, s.reqs[i].refresh}
                                            \ {NoCredential})
    /\ UNCHANGED <<now, ticks, used, settings, app_state, traffic>>

\* more than RATE_LIMIT_PERIOD seconds pass without a request
Elapse ==
    /\ ticks < MaxTicks
    /\ now' = now + RATE_LIMIT_PERIOD + 1
    /\ ticks' = ticks + 1
    /\ resp' = Response("tick", NoCredential, Absent, NoPassword, Failure(200, "", {}))
    /\ UNCHANGED <<users, issued, used, settings, app_state, traffic>>

\* a request of a client to a route that answers 200 (GET /health)
Request ==
    \E client_ip \in ClientIps :
        LET m == rate_limit_middleware(client_ip, settings.RATE_LIMIT_ENABLED, app_state)
            r == MiddlewareResponse(m, Outcome(200, "healthy", NoId))
        IN /\ traffic[client_ip].received < MaxRequests
           /\ app_state' = m.state
           /\ traffic' = [traffic EXCEPT ![client_ip] =
                              [received |-> @.received + 1,
                               passed |-> @.passed + IF m.passed THEN 1 ELSE 0]]
           /\ resp' = [op |-> "request", ip |-> client_ip, status |-> r.status,
                       detail |-> r.detail, passed |-> m.passed]
           /\ UNCHANGED <<users, issued, now, ticks, used, settings>>

\* a call of one of the functions that sign a token, at the instant t
CodecEncode(path, data, expires_delta, token_type, t) ==
    CASE path = "create_jwt_token" -> create_jwt_token(data, expires_delta, token_type, t)
      [] path = "create_access_token" -> create_access_token(data, expires_delta, t)
      [] path = "create_refresh_token" -> create_refresh_token(data, t)
      [] path = "create_password_reset_token" -> create_password_reset_token(int(data.sub), t)

\* a call of a signing function and what decoding has made of its token
CodecResponse(op, path, data, expires_delta, token_type, at, token, decoded, reset_subject) ==
    [op |-> op, path |-> path, data |-> data, ttl |-> expires_delta, type |-> token_type,
     at |-> at, token |-> token, decoded |-> decoded, reset_subject |-> reset_subject]

\* the calls of the signing functions: the function, the ttl and the type it is given
CodecCalls ==
    ({"create_jwt_token"} \X CodecTtls \X {"access", "refresh"})
        \cup ({"create_access_token"} \X CodecTtls \X {"access"})
        \cup ({"create_refresh_token"} \X {0} \X {"refresh"})
        \cup ({"create_password_reset_token"} \X
                  {MinutesToSeconds(RESET_TOKEN_EXPIRE_MINUTES)} \X {"access"})

Encode ==
    \E call \in CodecCalls, data \in CodecData :
        /\ call[1] = "create_password_reset_token" =>
               data = Data(data.sub, Absent, "password_reset")
        /\ resp' = CodecResponse("encode", call[1], data, call[2], call[3], now,
                                 CodecEncode(call[1], data, call[2], call[3], now),
                                 DecodeFailure, NoId)
        /\ UNCHANGED <<users, issued, now, ticks, used, settings, app_state, traffic>>

\* the token of the last call is decoded, at once or when the clock has reached or
\* passed its expiry
Decode ==
    /\ resp.op = "encode"
    /\ \E t \in {now, resp.token.payload.exp, resp.token.payload.exp + 1} :
        /\ t >= now
        /\ t > now => ticks < MaxTicks
        /\ now' = t
        /\ ticks' = IF t > now THEN ticks + 1 ELSE ticks
        /\ resp' = [resp EXCEPT !.op = "decode",
                                !.decoded = IF resp.path \in {"create_access_token",
                                                              "create_refresh_token"}
                                            THEN verify_token(resp.token, t)
                                            ELSE verify_jwt_token(resp.token, t),
                                !.reset_subject = verify_password_reset_token(resp.token, t)]
        /\ UNCHANGED <<users, issued, used, settings, app_state, traffic>>

\* two requests arrive, each at a guard
BeginGuards ==
    \E call1 \in StagedCalls, call2 \in StagedCalls :
        \E cred1 \in issued \cup {NoCredential}, cred2 \in issued \cup {NoCredential} :
            /\ resp.op = "guards" => \A i \in DOMAIN resp.reqs : resp.reqs[i].pc = "done"
            /\ resp' = [op |-> "guards",
                        reqs |-> <<StagedRequest(call1[1], call1[2], cred1),
                                   StagedRequest(call2[1], call2[2], cred2)>>,
                        overlap |-> FALSE]
            /\ UNCHANGED <<users, issued, now, ticks, used, settings, app_state, traffic>>

\* one of the two requests takes its next step; overlap records that the other was
\* between two of its own
EvaluateGuards ==
    /\ resp.op = "guards"
    /\ \E i \in DOMAIN resp.reqs :
           /\ resp.reqs[i].pc # "done"
           /\ resp' = [resp EXCEPT
                         !.reqs = GuardStep(resp.reqs, i, users, now),
                         !.overlap = @ \/ \E j \in DOMAIN resp.reqs \ {i} :
                                              resp.reqs[j].pc \in {"lookup", "decide"}]
    /\ UNCHANGED <<users, issued, now, ticks, used, settings, app_state, traffic>>

\* a call of get_password_hash and what verify_password has made of its hash
HashResponse(op, password, hashed, candidate, ok) ==
    [op |-> op, password |-> password, hashed |-> hashed, candidate |-> candidate, ok |-> ok]

HashPassword ==
    \E password \in LongPasswords, salt \in HashSalts :
        /\ resp' = HashResponse("hash", password, get_password_hash(password, salt),
                                NoPassword, FALSE)
        /\ UNCHANGED <<users, issued, now, ticks, used, settings, app_state, traffic>>

\* a candidate password is verified against the hash of the last call
VerifyPassword ==
    /\ resp.op \in {"hash", "verify"}
    /\ \E candidate \in LongPasswords :
           resp' = [resp EXCEPT !.op = "verify", !.candidate = candidate,
                                !.ok = verify_password(candidate, resp.hashed)]
    /\ UNCHANGED <<users, issued, now, ticks, used, settings, app_state, traffic>>

\* the operations that change the store, the tokens in circulation or the clock
Core ==
    \/ Tick
    \/ Register
    \/ Refresh
    \/ ForgotPassword

\* the permission guard of app/core/permissions.py
NextPermission ==
    \/ Core
    \/ RequirePermission

\* the role guard of app/core/permissions.py and the admin guard of
\* app/auth/dependencies.py
NextRole ==
    \/ Core
    \/ RequireRole
    \/ CurrentAdminUser

\* the resolver and the guards of app/auth/dependencies.py, and the guard of
\* app/api/v1/auth.py
NextResolve ==
    \/ Core
    \/ ApiAuthenticated
    \/ Authenticated
    \/ Resolve
    \/ OptionalAuth

\* the login endpoint
NextLogin ==
    \/ Core
    \/ Login

\* password reset
NextReset ==
    \/ Core
    \/ ResetPassword

\* what an administrator does to accounts and a client to its tokens, between the
\* expiries of the tokens
NextAccount ==
    \/ Register
    \/ Refresh
    \/ ForgotPassword
    \/ AdminUpdateUser
    \/ Logout
    \/ Discard

\* the operations that take a token, as the clock passes the expiries; of the two
\* guards of app/core/permissions.py, which share their first step, the role guard
NextExpiry ==
    \/ Core
    \/ ResetPassword
    \/ RequireRole
    \/ ApiAuthenticated
    \/ Authenticated
    \/ Resolve
    \/ OptionalAuth

\* the operations between the issue of a token and its expiry, and the guards it
\* is presented to
NextRevoke ==
    \/ Core
    \/ Login
    \/ ResetPassword
    \/ AdminUpdateUser
    \/ Logout
    \/ ApiAuthenticated
    \/ Resolve

\* two guard evaluations in flight at once, over the stores and tokens that
\* registration and reset requests leave
NextGuards ==
    \/ Register
    \/ ForgotPassword
    \/ BeginGuards
    \/ EvaluateGuards

\* the two token codecs as functions
NextCodec ==
    \/ Encode
    \/ Decode

\* the credential verifier as functions
NextPassword ==
    \/ HashPassword
    \/ VerifyPassword

\* requests through the rate limiter as time passes
NextRate ==
    \/ Elapse
    \/ Request

\* registrations that run at once
NextRegister ==
    \/ BeginRegisters
    \/ StepRegisters

\* the operations that write a row of the user store
NextProfile ==
    \/ RegisterBody
    \/ ForgotPassword
    \/ UpdateProfile
    \/ AdminUpdateUser
    \/ Discard

Next ==
    \/ NextPermission
    \/ NextRole
    \/ NextResolve
    \/ NextLogin
    \/ NextReset
    \/ NextAccount
    \/ NextRevoke
    \/ NextGuards
    \/ NextCodec
    \/ NextPassword
    \/ NextProfile
    \/ NextRegister
    \/ NextRate

Spec == Init /\ [][Next]_vars
SpecPermission == Init /\ [][NextPermission]_vars
SpecRole == Init /\ [][NextRole]_vars
SpecResolve == Init /\ [][NextResolve]_vars
SpecLogin == Init /\ [][NextLogin]_vars
SpecReset == Init /\ [][NextReset]_vars
SpecExpiry == InitAccount /\ [][NextExpiry]_vars
SpecCodec == InitAccount /\ [][NextCodec]_vars
SpecRevoke == InitAccount /\ [][NextRevoke]_vars
SpecGuards == InitAccount /\ [][NextGuards]_vars
SpecPassword == InitAccount /\ [][NextPassword]_vars
SpecAccount == InitAccount /\ [][NextAccount]_vars
SpecProfile == InitAccount /\ [][NextProfile]_vars
SpecRegister == InitAccount /\ [][NextRegister]_vars
SpecRate == InitRate /\ [][NextRate]_vars

(***************************************************************************)
(* Vocabulary of the properties.                                           *)
(***************************************************************************)
\* the credential is a token signed under the process key and not yet expired
Authentic(cred) ==
    /\ cred.kind = "jwt"
    /\ cred.sig = Hmac(cred.payload, SECRET_KEY)
    /\ cred.payload.exp >= now

\* the rows the subject of the credential names, and those of them that are active
PrincipalsOf(cred) == {u \in users : <<cred.payload.sub, u.id>> \in IntLiterals}
ActivePrincipalsOf(cred) == {u \in PrincipalsOf(cred) : u.status = "active"}

\* the credential is a valid token of the active principal u
ValidFor(cred, u) == Authentic(cred) /\ u \in ActivePrincipalsOf(cred)

\* the Authorization Matrix entry of the role named r
MatrixEntry(r) == ROLE_PERMISSIONS[PermUserRole[r]]

\* the login request names the row u and carries its password
CorrectLogin(r, u) ==
    /\ r.op = "login"
    /\ u.email = r.arg \/ u.username = r.arg
    /\ verify_password(r.pw, u.hashed_password)

(***************************************************************************)
(* C1.  For an active principal with role r presenting a valid token, the  *)
(* permission guard require_permission(P) admits the request and returns   *)
(* the principal if P is in the matrix entry of r, and fails with 403      *)
(* otherwise.  The code refutes it: has_permission looks the stored role   *)
(* ("ADMIN") up among the values of permissions.UserRole ("admin").        *)
(***************************************************************************)
C1_PermissionGuardFollowsMatrix ==
    resp.op = "require_permission" =>
        \A u \in users :
            ValidFor(resp.cred, u) =>
                IF resp.arg \in MatrixEntry(u.role)
                THEN resp.status = 200 /\ resp.user = u.id
                ELSE resp.status = 403

(***************************************************************************)
(* C2.  ADMIN superset: has_permission is true of every subject with role  *)
(* ADMIN, a User row or the claims of a token issued to one, for every     *)
(* permission the matrix grants to EDITOR, VIEWER or USER.  The code       *)
(* refutes it for the same reason as C1.                                   *)
(***************************************************************************)
C2_AdminSuperset ==
    \A permission \in MatrixEntry("EDITOR") \cup MatrixEntry("VIEWER") \cup MatrixEntry("USER") :
        /\ \A u \in users :
               u.role = "ADMIN" => has_permission(PrincipalSubject(u), permission)
        /\ \A tk \in issued :
               tk.payload.role = "ADMIN" => has_permission(ClaimsSubject(tk.payload), permission)

(***************************************************************************)
(* C3.  The role guard require_role(R) admits an authenticated active      *)
(* principal exactly when its role is R, and fails with 403 otherwise; in  *)
(* particular require_admin admits every active ADMIN.  The code refutes   *)
(* it: the stored role "ADMIN" equals neither the member nor the value     *)
(* "admin" of permissions.UserRole.                                        *)
(***************************************************************************)
C3_RoleGuardFollowsRole ==
    resp.op = "require_role" =>
        \A u \in users :
            ValidFor(resp.cred, u) =>
                IF u.role = resp.arg
                THEN resp.status = 200 /\ resp.user = u.id
                ELSE resp.status = 403

(***************************************************************************)
(* C4.  The permission guard, asked with no credential or with one that    *)
(* does not resolve to a principal, fails with 401 and never with 403.     *)
(***************************************************************************)
C4_AuthenticationPrecedesPermission ==
    (/\ resp.op = "require_permission"
     /\ ~Authentic(resp.cred) \/ ActivePrincipalsOf(resp.cred) = {})
        => resp.status = 401 /\ resp.user = NoId

\* the guard for service:update was asked without a credential
C4_Witness ==
    /\ resp.op = "require_permission"
    /\ resp.arg = "service:update"
    /\ resp.cred = NoCredential
    /\ resp.status = 401

(***************************************************************************)
(* C5.  resolve (get_current_user of app/auth/dependencies.py) returns a   *)
(* principal only for a token that verifies, whose subject is the number   *)
(* of a row that is active; in every other case it returns None, and it    *)
(* never raises.                                                           *)
(***************************************************************************)
C5_ResolveOnlyActivePrincipal ==
    resp.op = "get_current_user" =>
        /\ resp.status = 200
        /\ IF Authentic(resp.cred) /\ ActivePrincipalsOf(resp.cred) # {}
           THEN \E u \in ActivePrincipalsOf(resp.cred) : resp.user = u.id
           ELSE resp.user = NoId

\* resolve was given a token that had expired and returned None
C5_Witness ==
    /\ resp.op = "get_current_user"
    /\ resp.cred \in issued
    /\ resp.cred.payload.exp < now
    /\ PrincipalsOf(resp.cred) # {}
    /\ resp.user = NoId

(***************************************************************************)
(* C6.  The Authenticated guard fails with 401 when no credential is       *)
(* presented, and with 400 (AccountNotActive) when the token is valid but  *)
(* its principal is inactive or suspended.  The code refutes the second    *)
(* half: the resolver has already dropped the principal, so the guard      *)
(* answers 401 and its own 400 branch is never taken.                      *)
(***************************************************************************)
C6_AuthenticatedGuardErrors ==
    resp.op \in {"get_current_active_user", "api_get_current_active_user"} =>
        /\ resp.cred = NoCredential => resp.status = 401
        /\ (/\ Authentic(resp.cred)
            /\ \E u \in PrincipalsOf(resp.cred) : u.status \in {"inactive", "suspended"})
               => resp.status = 400

(***************************************************************************)
(* C7.  The optional-auth guard never fails a request: it yields None for  *)
(* a missing, malformed, expired or badly signed token, an unknown subject *)
(* or a principal that is not active, and the principal exactly when       *)
(* resolve does.                                                           *)
(***************************************************************************)
C7_OptionalAuthNeverFails ==
    resp.op = "optional_auth" =>
        /\ resp.status = 200
        /\ resp.user = get_current_user(resp.cred, users, now).user
        /\ (~Authentic(resp.cred) \/ ActivePrincipalsOf(resp.cred) = {}) => resp.user = NoId
        /\ resp.user # NoId => \E u \in users : u.id = resp.user /\ u.status = "active"

\* the guard was given a valid token of a principal that is not active
C7_Witness ==
    /\ resp.op = "optional_auth"
    /\ Authentic(resp.cred)
    /\ \E u \in PrincipalsOf(resp.cred) : u.status # "active"
    /\ resp.status = 200
    /\ resp.user = NoId

(***************************************************************************)
(* C8.  Login with the identifier and the correct password of an active    *)
(* account returns an access and a refresh token that both verify and      *)
(* carry the id of the account as subject.  The code refutes it:           *)
(* user.last_login = db.func.now() raises on the Session and the request   *)
(* ends in 500 with no tokens.                                             *)
(***************************************************************************)
C8_LoginIssuesTokens ==
    \A u \in users :
        (CorrectLogin(resp, u) /\ u.status = "active") =>
            /\ resp.status = 200
            /\ verify_token(resp.access, now).ok
            /\ verify_token(resp.refresh, now).ok
            /\ resp.access.payload.sub = str(u.id)
            /\ resp.refresh.payload.sub = str(u.id)

(***************************************************************************)
(* C9.  Login with the correct credentials of an account that is not       *)
(* active fails with 400 (AccountNotActive), returns no token and leaves   *)
(* the user store, last_login included, as it was.                         *)
(***************************************************************************)
C9_InactiveLoginRejected ==
    [][\A u \in users :
          (CorrectLogin(resp', u) /\ u.status # "active") =>
              /\ resp'.status = 400
              /\ resp'.detail = "User account is not active"
              /\ TokensOf(resp') = {}
              /\ issued' = issued
              /\ users' = users]_vars

\* a login with the correct password of a suspended account was answered
C9_Witness ==
    /\ resp.op = "login"
    /\ \E u \in users : CorrectLogin(resp, u) /\ u.status = "suspended"
    /\ resp.status = 400

(***************************************************************************)
(* C10.  When the step that records the login (the update of last_login)   *)
(* fails on a login with the correct credentials of an active account, the *)
(* token pair is returned all the same.  The code refutes it: the failure  *)
(* of that step ends the request, see C8.                                  *)
(***************************************************************************)
C10_RecordLoginIsBestEffort ==
    \A u \in users :
        (/\ CorrectLogin(resp, u)
         /\ u.status = "active"
         /\ u.last_login # now)
            => resp.access # NoCredential /\ resp.refresh # NoCredential

(***************************************************************************)
(* C11.  A login that fails because the identifier names no account and a  *)
(* login that fails because the password is wrong are answered alike: the  *)
(* same status, the same message, no principal and no token.               *)
(***************************************************************************)
\* the login request names no row
UnknownIdentifier(r) ==
    r.op = "login" /\ ~\E u \in users : u.email = r.arg \/ u.username = r.arg
\* the login request names a row and carries a password that is not the row's
WrongPassword(r) ==
    /\ r.op = "login"
    /\ \E u \in users : u.email = r.arg \/ u.username = r.arg
    /\ \A u \in users : ~CorrectLogin(r, u)

\* what the client sees of a response
Observable(r) == <<r.status, r.detail, r.user, r.access, r.refresh, r.reset>>
InvalidCredentials ==
    <<401, "Incorrect email/username or password", NoId,
      NoCredential, NoCredential, NoCredential>>

C11_LoginFailuresAlike ==
    UnknownIdentifier(resp) \/ WrongPassword(resp) => Observable(resp) = InvalidCredentials

C11_Witness ==
    /\ WrongPassword(resp)
    /\ Observable(resp) = InvalidCredentials

(***************************************************************************)
(* C12.  Refresh issues a new access token only when the presented token   *)
(* verifies and its type is refresh.  A token that does not verify, and a  *)
(* valid token of any other type, an access token included, is answered    *)
(* with 401 "Invalid refresh token" and no token.                          *)
(***************************************************************************)
\* the credential is a valid token of type refresh
RefreshCredential(cred) == Authentic(cred) /\ cred.payload.type = "refresh"
InvalidToken == <<401, "Invalid refresh token">>

C12_RefreshNeedsRefreshToken ==
    resp.op = "refresh" =>
        /\ TokensOf(resp) # {} => RefreshCredential(resp.cred)
        /\ ~RefreshCredential(resp.cred) =>
               /\ <<resp.status, resp.detail>> = InvalidToken
               /\ TokensOf(resp) = {}

C12_Witness ==
    /\ resp.op = "refresh"
    /\ Authentic(resp.cred)
    /\ resp.cred.payload.type = "access"
    /\ <<resp.status, resp.detail>> = InvalidToken
    /\ TokensOf(resp) = {}

(***************************************************************************)
(* C13.  Refresh with a valid refresh token whose principal is inactive or *)
(* suspended fails with the account-not-active outcome, 400 as at login    *)
(* and in the guards, an outcome distinct from the 401 of a token that is  *)
(* of the wrong type, expired or badly signed, and issues no token.  The   *)
(* code refutes it: refresh_token answers 401 "User not found or           *)
(* inactive", the status of an invalid token and the outcome of a subject  *)
(* that names no row.                                                      *)
(***************************************************************************)
\* the refresh request carries a valid refresh token of a principal that is not active
RefreshOfInactive(r) ==
    /\ r.op = "refresh"
    /\ RefreshCredential(r.cred)
    /\ \E u \in PrincipalsOf(r.cred) : u.status # "active"

C13_InactiveRefreshIsAccountNotActive ==
    RefreshOfInactive(resp) =>
        /\ resp.status = 400
        /\ resp.status # InvalidToken[1]
        /\ TokensOf(resp) = {}

(***************************************************************************)
(* C14.  Register fails with 400 "already exists", creates no principal    *)
(* and returns no token when a principal already holds the email or the    *)
(* username.  Otherwise it creates exactly one new principal, with a fresh *)
(* id, the email and the username of the request, and returns an access    *)
(* and a refresh token whose subject is the new principal's id.            *)
(***************************************************************************)
DuplicateIdentifier == <<400, "User with this email or username already exists">>

\* the row u is the one principal the register request r added to rows
RegisteredAs(r, u, before, after) ==
    /\ u \notin before
    /\ after = before \cup {u}
    /\ \A v \in before : v.id # u.id
    /\ u.email = r.arg /\ u.username = r.username
    /\ r.status = 200 /\ r.user = u.id
    /\ r.access # NoCredential /\ r.access.payload.sub = str(u.id)
    /\ r.access.payload.type = "access"
    /\ r.refresh # NoCredential /\ r.refresh.payload.sub = str(u.id)
    /\ r.refresh.payload.type = "refresh"

C14_RegisterCreatesOneOrNone ==
    [][resp'.op = "register" =>
          IF \E u \in users : u.email = resp'.arg \/ u.username = resp'.username
          THEN /\ <<resp'.status, resp'.detail>> = DuplicateIdentifier
               /\ users' = users
               /\ TokensOf(resp') = {}
          ELSE \E u \in users' : RegisteredAs(resp', u, users, users')]_vars

C14_Witness ==
    /\ resp.op = "register"
    /\ resp.status = 200
    /\ \E u \in users :
           /\ u.id = resp.user /\ u.email = resp.arg /\ u.username = resp.username
           /\ resp.access.payload.sub = str(u.id)
           /\ resp.refresh.payload.sub = str(u.id)

(***************************************************************************)
(* C15.  Request-password-reset answers with the same status, the same     *)
(* message and the same fields whether or not the email names a principal. *)
(* The code refutes it: for a known email the message differs and the      *)
(* response carries the reset token.                                       *)
(***************************************************************************)
\* an email no principal holds
UnknownEmail == "nobody@x"

C15_ResetRequestSameShape ==
    resp.op = "forgot_password" =>
        Observable(resp) = Observable(forgot_password(UnknownEmail, users, now))

(***************************************************************************)
(* C16.  Consume-password-reset changes a stored credential, or reports    *)
(* success, only if the presented token verifies, is unexpired and carries *)
(* purpose = password_reset.  A token without that purpose, an ordinary    *)
(* access or refresh token included, is answered with 400 "Invalid or      *)
(* expired reset token" and every row is left as it was.                   *)
(***************************************************************************)
\* the credential is a valid token with the purpose password_reset
ResetCredential(cred) == Authentic(cred) /\ cred.payload.purpose = "password_reset"
InvalidResetToken == <<400, "Invalid or expired reset token">>

C16_ResetNeedsResetToken ==
    [][resp'.op = "reset_password" =>
          /\ (users' # users \/ resp'.status = 200) => ResetCredential(resp'.cred)
          /\ resp'.cred.payload.purpose # "password_reset" =>
                 /\ <<resp'.status, resp'.detail>> = InvalidResetToken
                 /\ users' = users]_vars

C16_Witness ==
    /\ resp.op = "reset_password"
    /\ Authentic(resp.cred)
    /\ resp.cred.payload.type = "access"
    /\ resp.cred.payload.purpose = Absent
    /\ <<resp.status, resp.detail>> = InvalidResetToken

(***************************************************************************)
(* C17.  A reset token is not invalidated by use.  Presented again after   *)
(* it has changed a password, it succeeds again for as long as the clock   *)
(* has not passed its expires_at, and overwrites the credential of its     *)
(* principal with the new password, changing nothing else in the store;    *)
(* once the clock has passed expires_at it is rejected and the store is    *)
(* left as it was.                                                         *)
(***************************************************************************)
\* rows differ from before only in the credential of the principal of cred, which
\* now verifies the password pw
Overwritten(cred, pw, before, after) ==
    \E u \in before :
        /\ <<cred.payload.sub, u.id>> \in IntLiterals
        /\ \E v \in after :
               /\ after = (before \ {u}) \cup {v}
               /\ v = [u EXCEPT !.hashed_password = v.hashed_password]
               /\ verify_password(pw, v.hashed_password)

C17_ResetTokenReusable ==
    [][resp'.op = "reset_password" /\ <<resp'.cred, 1>> \in used =>
          IF resp'.cred.payload.exp >= now
          THEN /\ resp'.status = 200
               /\ Overwritten(resp'.cred, resp'.pw, users, users')
          ELSE /\ <<resp'.status, resp'.detail>> = InvalidResetToken
               /\ users' = users]_vars

\* a second consumption of one token has set a password other than the seeded one
C17_Witness ==
    /\ resp.op = "reset_password"
    /\ resp.status = 200
    /\ <<resp.cred, 2>> \in used
    /\ \E u \in PrincipalsOf(resp.cred) :
           /\ verify_password(resp.pw, u.hashed_password)
           /\ resp.pw # AdminPassword

(***************************************************************************)
(* C18.  Token round trip: for claims C, a type and a ttl, decoding the    *)
(* encoded token before its expires_at succeeds and returns exactly C plus *)
(* issued_at = the instant of issue, expires_at = issued_at + ttl (the     *)
(* default of the type where the ttl is left out) and token_type = the     *)
(* type, for the tokens of create_jwt_token and for those of               *)
(* create_access_token and create_refresh_token alike.  The code refutes   *)
(* it: the functions of app/core/security.py set no issued_at.             *)
(***************************************************************************)
\* the ttl a call asks for: the one it passes, or the default of the type
TtlOrDefault(ttl, type) ==
    IF ttl # 0 THEN ttl
    ELSE IF type = "access" THEN MinutesToSeconds(ACCESS_TOKEN_EXPIRE_MINUTES)
    ELSE DaysToSeconds(REFRESH_TOKEN_EXPIRE_DAYS)

\* the claims the round trip is to return for the call r
RoundTripClaims(r) ==
    [r.data EXCEPT !.iat = r.at, !.exp = r.at + TtlOrDefault(r.ttl, r.type), !.type = r.type]

C18_TokenRoundTrip ==
    resp.op = "decode" /\ now <= resp.token.payload.exp =>
        resp.decoded = [ok |-> TRUE, payload |-> RoundTripClaims(resp)]

(***************************************************************************)
(* C20.  Every token the codec produces expires after it was issued:       *)
(* expires_at > issued_at for every ttl a caller may pass, zero and        *)
(* negative included, and for the defaults of both types.  The code        *)
(* refutes it: a negative ttl is added to the clock as it is.              *)
(***************************************************************************)
C20_ExpiryAfterIssue ==
    resp.op \in {"encode", "decode"} => resp.token.payload.exp > resp.at

(***************************************************************************)
(* C19.  Expiry is enforced at decode: a token whose expires_at is earlier *)
(* than the clock fails decoding with verification, so that no guard       *)
(* resolves a principal from it, refresh issues nothing for it and reset   *)
(* changes nothing for it.                                                 *)
(***************************************************************************)
\* the credential is a token whose expires_at the clock has passed
Expired(cred) == cred.kind = "jwt" /\ cred.payload.exp < now

RaisingGuards == {"require_role", "api_get_current_active_user", "get_current_active_user"}

C19_ExpiredTokenNeverAccepted ==
    Expired(resp.cred) =>
        /\ ~verify_token(resp.cred, now).ok
        /\ ~verify_jwt_token(resp.cred, now).ok
        /\ resp.user = NoId
        /\ TokensOf(resp) = {}
        /\ resp.op \in RaisingGuards => resp.status = 401
        /\ resp.op = "refresh" => <<resp.status, resp.detail>> = InvalidToken
        /\ resp.op = "reset_password" => <<resp.status, resp.detail>> = InvalidResetToken

\* a refresh token of an active principal, presented once the clock has passed its
\* expires_at
C19_Witness ==
    /\ resp.op = "refresh"
    /\ Expired(resp.cred)
    /\ resp.cred.sig = Hmac(resp.cred.payload, SECRET_KEY)
    /\ resp.cred.payload.type = "refresh"
    /\ ActivePrincipalsOf(resp.cred) # {}
    /\ <<resp.status, resp.detail>> = InvalidToken

(***************************************************************************)
(* C21.  Password round trip: for all passwords p and q, verifying p       *)
(* against the hash of p succeeds, and verifying q against the hash of p   *)
(* fails whenever q differs from p.  The code refutes it: both functions   *)
(* cut the password to its first 72 characters.                            *)
(***************************************************************************)
C21_PasswordRoundTrip ==
    resp.op = "verify" => (resp.ok <=> resp.candidate = resp.password)

(***************************************************************************)
(* C22.  As stated: whether a token is accepted depends on its signature   *)
(* and its claims alone, so a well-signed, unexpired token whose subject   *)
(* names a principal authenticates that principal whatever has happened    *)
(* since it was issued.                                                    *)
(***************************************************************************)
AuthenticatingOps == {"api_get_current_active_user", "get_current_user", "logout"}

C22_AcceptanceFromTokenAlone ==
    resp.op \in AuthenticatingOps /\ Authentic(resp.cred) /\ PrincipalsOf(resp.cred) # {} =>
        resp.user \in {u.id : u \in PrincipalsOf(resp.cred)}

(***************************************************************************)
(* C22, amended.  Acceptance depends on the signature, the claims and the  *)
(* status of the subject in the user store: no operation (logout, refresh, *)
(* login, register, password reset, a change of role) stops a token the    *)
(* guard accepts from being accepted at any time up to its expires_at, as  *)
(* long as its subject is still an active principal; and every guard       *)
(* resolves a well-signed, unexpired token of an active principal to that  *)
(* principal.                                                              *)
(***************************************************************************)
\* the guard of app/api/v1/auth.py would admit a request carrying the token
Accepts(tk) == ApiGetCurrentActiveUser(tk, users, now).status = 200
SubjectActive(tk) == ActivePrincipalsOf(tk) # {}

C22_NoOperationRevokes ==
    [][/\ \A tk \in issued :
              Accepts(tk) /\ tk.payload.exp >= now' /\ SubjectActive(tk)' => Accepts(tk)'
       /\ (resp.op \in AuthenticatingOps /\ Authentic(resp.cred) /\ SubjectActive(resp.cred) =>
              resp.user \in {u.id : u \in ActivePrincipalsOf(resp.cred)})']_vars

\* a token that has been used to reset a password is accepted by the guard afterwards
C22_Witness ==
    /\ resp.op = "api_get_current_active_user"
    /\ resp.status = 200
    /\ <<resp.cred, 1>> \in used
    /\ resp.user \in {u.id : u \in ActivePrincipalsOf(resp.cred)}

(***************************************************************************)
(* C23.  has_permission is false of every subject with role USER, a User   *)
(* row, the claims of a token or a subject carrying the matrix's own USER  *)
(* role, for each of the four ad permissions: the matrix entry of USER     *)
(* holds no ad permission, and the permission guard admits no USER to one. *)
(***************************************************************************)
AdPermissions == {"ad:create", "ad:read", "ad:update", "ad:delete"}

C23_UserHasNoAdPermission ==
    \A permission \in AdPermissions :
        /\ permission \notin MatrixEntry("USER")
        /\ ~has_permission([kind |-> "user", role |-> PermUserRole["USER"]], permission)
        /\ \A u \in users :
               u.role = "USER" => ~has_permission(PrincipalSubject(u), permission)
        /\ \A tk \in issued :
               tk.payload.role = "USER" =>
                   ~has_permission(ClaimsSubject(tk.payload), permission)
        /\ resp.op = "require_permission" /\ resp.arg = permission =>
               \A u \in users : resp.user = u.id => u.role # "USER"

\* a USER with a valid token has asked for an ad permission and been refused
C23_Witness ==
    /\ resp.op = "require_permission"
    /\ resp.arg \in AdPermissions
    /\ \E u \in users : u.role = "USER" /\ ValidFor(resp.cred, u)
    /\ resp.status = 403

(***************************************************************************)
(* C25.  The two admin guards admit the same requests: for every           *)
(* credential and every state of the user store, get_current_admin_user of *)
(* app/auth/dependencies.py admits the request if and only if              *)
(* require_admin of app/core/permissions.py admits it.  The code refutes   *)
(* it: require_admin admits nobody (C3), get_current_admin_user admits     *)
(* every active ADMIN.                                                     *)
(***************************************************************************)
C25_AdminGuardsAgree ==
    resp.op = "get_current_admin_user" =>
        (resp.status = 200 <=> require_admin(resp.cred, users, now).status = 200)

(***************************************************************************)
(* C24.  Guard evaluation writes no shared state: however the steps of two *)
(* concurrent guard evaluations interleave, each ends with the outcome the *)
(* guard has when it is evaluated alone against the same user store and    *)
(* clock, and no step changes the user store, the tokens or the clock.     *)
(* The Authorization Matrix and the signing key are constants of the       *)
(* module, as they are of the program.                                     *)
(***************************************************************************)
\* the outcome of the guard of the request, evaluated in one piece
IsolatedOutcome(req) ==
    CASE req.guard = "get_current_user" -> get_current_user(req.cred, users, now)
      [] req.guard = "get_current_active_user" ->
             get_current_active_user(req.cred, users, now)
      [] req.guard = "get_current_admin_user" ->
             get_current_admin_user(req.cred, users, now)
      [] req.guard = "get_current_editor_user" ->
             get_current_editor_user(req.cred, users, now)
      [] req.guard = "require_permission" ->
             require_permission(req.arg, req.cred, users, now)
      [] req.guard = "require_role" -> require_role(req.arg, req.cred, users, now)

C24_GuardsIsolated ==
    [][resp'.op = "guards" =>
          /\ UNCHANGED <<users, issued, now>>
          /\ \A i \in DOMAIN resp'.reqs :
                 resp'.reqs[i].pc = "done" =>
                     resp'.reqs[i].outcome = IsolatedOutcome(resp'.reqs[i])]_vars

\* two evaluations for different credentials have overlapped and ended differently
C24_Witness ==
    /\ resp.op = "guards"
    /\ resp.overlap
    /\ \A i \in DOMAIN resp.reqs : resp.reqs[i].pc = "done"
    /\ resp.reqs[1].cred # resp.reqs[2].cred
    /\ resp.reqs[1].outcome.status = 200 /\ resp.reqs[1].outcome.user # NoId
    /\ resp.reqs[2].outcome.status = 403

(***************************************************************************)
(* C26.  The resolver inspects neither token_type nor purpose: a           *)
(* well-signed, unexpired refresh token or password-reset token presented  *)
(* as a bearer credential resolves to its subject and passes the           *)
(* authenticated guards with the very outcome an access token of the same  *)
(* subject, role and expiry has.                                           *)
(***************************************************************************)
\* the access token with the subject, the role and the expiry of the token
AsAccessToken(tk) ==
    JwtEncode([tk.payload EXCEPT !.type = "access", !.purpose = Absent], SECRET_KEY)

\* the token is a refresh token or a password-reset token
NotAnAccessToken(tk) == tk.payload.type = "refresh" \/ tk.payload.purpose = "password_reset"

\* the outcome of the resolving guard named op for the credential
ResolverOutcome(op, cred) ==
    CASE op = "api_get_current_active_user" -> ApiGetCurrentActiveUser(cred, users, now)
      [] op = "get_current_active_user" -> get_current_active_user(cred, users, now)
      [] op = "get_current_user" -> get_current_user(cred, users, now)
      [] op = "optional_auth" -> optional_auth(cred, users, now)

ResolvingOps ==
    {"api_get_current_active_user", "get_current_active_user", "get_current_user",
     "optional_auth"}

C26_ResolverIgnoresTokenType ==
    resp.op \in ResolvingOps /\ Authentic(resp.cred) /\ NotAnAccessToken(resp.cred) =>
        /\ <<resp.status, resp.detail, resp.user>> =
               LET r == ResolverOutcome(resp.op, AsAccessToken(resp.cred))
               IN <<r.status, r.detail, r.user>>
        /\ ActivePrincipalsOf(resp.cred) # {} =>
               /\ resp.status = 200
               /\ resp.user \in {u.id : u \in ActivePrincipalsOf(resp.cred)}

\* a password-reset token has passed the guard of app/api/v1/auth.py
C26_Witness ==
    /\ resp.op = "api_get_current_active_user"
    /\ Authentic(resp.cred)
    /\ resp.cred.payload.purpose = "password_reset"
    /\ resp.status = 200
    /\ resp.user \in {u.id : u \in ActivePrincipalsOf(resp.cred)}

(***************************************************************************)
(* C27.  Password reset does not apply the account status gate:            *)
(* request-password-reset returns a reset token for a principal that is    *)
(* inactive or suspended, consume-password-reset with a valid reset token  *)
(* of such a principal replaces its credential, and the reset changes      *)
(* nothing else: status, role and id of the principal and every other row  *)
(* are as before.                                                          *)
(***************************************************************************)
C27_ResetIgnoresStatusGate ==
    [][/\ resp'.op = "forgot_password" =>
              \A u \in users :
                  u.email = resp'.arg /\ u.status # "active" =>
                      /\ resp'.reset # NoCredential
                      /\ resp'.reset.payload.sub = str(u.id)
                      /\ resp'.reset.payload.purpose = "password_reset"
                      /\ users' = users
       /\ resp'.op = "reset_password" /\ ResetCredential(resp'.cred)
              /\ (\E u \in PrincipalsOf(resp'.cred) : u.status # "active") =>
                  /\ resp'.status = 200
                  /\ Overwritten(resp'.cred, resp'.pw, users, users')]_vars

\* a principal that is not active has a new password, set with a reset token
C27_Witness ==
    /\ resp.op = "reset_password"
    /\ resp.status = 200
    /\ resp.pw # AdminPassword
    /\ \E u \in PrincipalsOf(resp.cred) :
           /\ u.status # "active"
           /\ verify_password(resp.pw, u.hashed_password)

(***************************************************************************)
(* C28.  Self-service operations never set privilege: a row that register  *)
(* creates has role USER and status active whatever the body carries, a    *)
(* profile update leaves role, status and id of every row as they were,    *)
(* and a step in which the role or the status of a row changes is an       *)
(* update_user request that the admin guard admitted.                      *)
(***************************************************************************)
C28_SelfServiceNeverSetsPrivilege ==
    [][/\ \A v \in users' :
              (\A u \in users : u.id # v.id) =>
                  resp'.op = "register" /\ v.role = "USER" /\ v.status = "active"
       /\ resp'.op = "update_me" =>
              \A u \in users :
                  \E v \in users' : v.id = u.id /\ v.role = u.role /\ v.status = u.status
       /\ \A u \in users, v \in users' :
              u.id = v.id /\ (u.role # v.role \/ u.status # v.status) =>
                  /\ resp'.op = "update_user"
                  /\ resp'.status = 200
                  /\ get_current_admin(resp'.cred, users, now).status = 200]_vars

\* a profile update whose body carried a role and a status went through, and the
\* caller, registered with a body that asked for ADMIN, is an active USER
C28_Witness ==
    /\ resp.op = "update_me"
    /\ resp.status = 200
    /\ resp.body.role = "ADMIN"
    /\ resp.body.status = "suspended"
    /\ resp.body.email = "carol@x"
    /\ \E u \in users :
           /\ u.id = resp.user
           /\ u.email = "carol@x"
           /\ u.role = "USER"
           /\ u.status = "active"

(***************************************************************************)
(* C29.  However the steps of two register requests that carry the same    *)
(* email or the same username interleave, no two rows of the user store    *)
(* share an email or a username, and a request that has created no row     *)
(* ends without tokens: every token a step issues belongs to a request    *)
(* that created the row of its subject.                                    *)
(***************************************************************************)
C29_ConcurrentRegisterUnique ==
    [][resp'.op = "registers" =>
          /\ \A u \in users', v \in users' :
                 u.email = v.email \/ u.username = v.username => u = v
          /\ \A i \in DOMAIN resp'.reqs :
                 LET req == resp'.reqs[i]
                     created == \E u \in users' : /\ u.id = req.user
                                                  /\ u.email = req.email
                                                  /\ u.username = req.username
                 IN /\ req.pc = "done" /\ ~created =>
                           /\ req.status # 200
                           /\ req.access = NoCredential
                           /\ req.refresh = NoCredential
                    /\ \A tk \in {req.access, req.refresh} \ {NoCredential} :
                           created /\ tk.payload.sub = str(req.user)
          /\ issued' \ issued \subseteq
                 UNION {{resp'.reqs[i].access, resp'.reqs[i].refresh} \ {NoCredential} :
                            i \in DOMAIN resp'.reqs}]_vars

\* both requests passed the existence query before either committed; one created
\* the principal and has its tokens, the other was refused by the unique index
C29_Witness ==
    /\ resp.op = "registers"
    /\ resp.overlap
    /\ \A i \in DOMAIN resp.reqs : resp.reqs[i].pc = "done"
    /\ resp.reqs[1].email = resp.reqs[2].email
    /\ resp.reqs[1].username # resp.reqs[2].username
    /\ resp.reqs[1].status = 500 /\ resp.reqs[1].access = NoCredential
    /\ resp.reqs[2].status = 200 /\ resp.reqs[2].access \in issued
    /\ Cardinality({u \in users : u.email = resp.reqs[1].email}) = 1

(***************************************************************************)
(* C30.  With rate limiting enabled the counter of a client IP only        *)
(* increases: at most RATE_LIMIT_REQUESTS requests of a client are passed  *)
(* to the application, and every request after them is rejected with 429   *)
(* at whatever time it arrives.  With rate limiting disabled no request is *)
(* rejected and no counter changes.                                        *)
(***************************************************************************)
C30_RateLimitNeverResets ==
    [][/\ \A ip \in ClientIps : app_state'[ip] >= app_state[ip]
       /\ resp'.op = "request" =>
              IF settings.RATE_LIMIT_ENABLED
              THEN /\ traffic'[resp'.ip].passed <= RATE_LIMIT_REQUESTS
                   /\ traffic[resp'.ip].passed = RATE_LIMIT_REQUESTS =>
                          ~resp'.passed /\ resp'.status = 429
              ELSE /\ resp'.passed
                   /\ resp'.status = 200
                   /\ app_state' = app_state]_vars

====
